---- MODULE Spec2Model ----
(***************************************************************************)
(* The socket address-dispatch index of smoltcp's interface layer:         *)
(* DispatchTable (src/iface/socket_dispatch.rs) and the SocketTracker      *)
(* guard that reconciles it (src/iface/socket_tracker.rs).                 *)
(*                                                                         *)
(* A BTreeMap is a function whose DOMAIN is its key set, a BTreeSet a set, *)
(* an Option a sequence of length 0 (None) or 1 (Some).  The operations of *)
(* DispatchTable are operators from a table value to the table they leave  *)
(* and the Result they return, so that a caller which issues two of them   *)
(* in a row (the tracker's remove-then-add) composes them.                 *)
(***************************************************************************)
EXTENDS Integers, Sequences, FiniteSets, TLC

VARIABLES
    table,          \* the DispatchTable
    sockets,        \* the socket set: SocketHandle -> socket
    dirty_sockets,  \* the dirty-handle set the tracker inserts into
    call,           \* the last call: [op, handle] of a DispatchTable call, or the
                    \* last guard: [op |-> "drop", handle, matched], matched saying
                    \* whether the table held the socket as its state asked when
                    \* the guard was acquired
    res             \* the Result the last call returned; for a guard, the first
                    \* Result its debug_assert!(res.is_ok()) would reject, else Ok

vars == <<table, sockets, dirty_sockets, call, res>>

----------------------------------------------------------------------------
(* Bounds and value domains *)

MaxHandle == 3

SocketHandle == 1..MaxHandle

None == <<>>

Some(x) == <<x>>

unwrap(o) == o[1]

or_else(a, b) == IF a # None THEN a ELSE b

Ipv4Addresses == {"0.0.0.0", "1.2.3.4", "5.6.7.8", "9.9.9.9"}

Ipv6Addresses == {"::", "fe80::1"}

version(addr) == IF addr \in Ipv4Addresses THEN "Ipv4" ELSE "Ipv6"

\* the match of get_udp_socket / get_tcp_socket on the destination's version
unspecified_for(ip_version) == IF ip_version = "Ipv4" THEN "0.0.0.0" ELSE "::"

IpEndpoint_new(addr, port) == [addr |-> addr, port |-> port]

\* IpListenEndpoint::from(IpEndpoint): the address becomes Some(addr)
from_endpoint(ep) == [addr |-> Some(ep.addr), port |-> ep.port]

\* IpListenEndpoint::from(u16): a port-only endpoint, the address is None
from_port(port) == [addr |-> None, port |-> port]

\* IpListenEndpoint::is_specified
is_specified(ep) == ep.addr # None

----------------------------------------------------------------------------
(* BTreeMap *)

EmptyMap == [x \in {} |-> 0]

Get(m, k) == IF k \in DOMAIN m THEN Some(m[k]) ELSE None

Insert(m, k, v) == [x \in (DOMAIN m) \cup {k} |-> IF x = k THEN v ELSE m[x]]

Remove(m, k) == [x \in (DOMAIN m) \ {k} |-> m[x]]

\* BTreeSet::iter().next(): the least element, if any
First(S) == IF S = {} THEN None ELSE Some(CHOOSE x \in S : \A y \in S : x <= y)

----------------------------------------------------------------------------
(* DispatchTable *)

TcpLocalEndpoint_default == [listen_sockets |-> {}, established_sockets |-> EmptyMap]

DispatchTable_default ==
    [raw |-> EmptyMap, udp |-> EmptyMap, tcp |-> EmptyMap,
     rev_raw |-> EmptyMap, rev_udp |-> EmptyMap, rev_tcp |-> EmptyMap]

\* get_tcp_socket, were a listening socket preferred to the established one
get_tcp_socket_listen_first(t, ip_repr, tcp_repr) ==
    LET found ==
          or_else(or_else(
              Get(t.tcp, from_endpoint(IpEndpoint_new(ip_repr.dst_addr, tcp_repr.dst_port))),
              Get(t.tcp, from_port(tcp_repr.dst_port))),
              Get(t.tcp, from_endpoint(IpEndpoint_new(
                  unspecified_for(version(ip_repr.dst_addr)), tcp_repr.dst_port))))
    IN  IF found = None THEN None
        ELSE LET local_endpoint == unwrap(found)
             IN  or_else(First(local_endpoint.listen_sockets),
                         Get(local_endpoint.established_sockets,
                             IpEndpoint_new(ip_repr.src_addr, tcp_repr.src_port)))

\* get_tcp_socket, were the port-only step of the fallback left out
get_tcp_socket_no_port_only(t, ip_repr, tcp_repr) ==
    LET found ==
          or_else(
              Get(t.tcp, from_endpoint(IpEndpoint_new(ip_repr.dst_addr, tcp_repr.dst_port))),
              Get(t.tcp, from_endpoint(IpEndpoint_new(
                  unspecified_for(version(ip_repr.dst_addr)), tcp_repr.dst_port))))
    IN  IF found = None THEN None
        ELSE LET local_endpoint == unwrap(found)
             IN  or_else(Get(local_endpoint.established_sockets,
                             IpEndpoint_new(ip_repr.src_addr, tcp_repr.src_port)),
                         First(local_endpoint.listen_sockets))

get_tcp_socket(t, ip_repr, tcp_repr) ==
    LET found ==
          or_else(or_else(
              \* bound address and port
              Get(t.tcp, from_endpoint(IpEndpoint_new(ip_repr.dst_addr, tcp_repr.dst_port))),
              \* bound port only
              Get(t.tcp, from_port(tcp_repr.dst_port))),
              \* bound port and ip version only
              Get(t.tcp, from_endpoint(IpEndpoint_new(
                  unspecified_for(version(ip_repr.dst_addr)), tcp_repr.dst_port))))
    IN  IF found = None THEN None
        ELSE LET local_endpoint == unwrap(found)
             IN  or_else(Get(local_endpoint.established_sockets,
                             IpEndpoint_new(ip_repr.src_addr, tcp_repr.src_port)),
                         First(local_endpoint.listen_sockets))

\* get_udp_socket, were the port-only key tried before the exact one
get_udp_socket_port_first(t, ip_repr, udp_repr) ==
    or_else(or_else(
        Get(t.udp, from_port(udp_repr.dst_port)),
        Get(t.udp, from_endpoint(IpEndpoint_new(ip_repr.dst_addr, udp_repr.dst_port)))),
        Get(t.udp, from_endpoint(IpEndpoint_new(
            unspecified_for(version(ip_repr.dst_addr)), udp_repr.dst_port))))

get_udp_socket(t, ip_repr, udp_repr) ==
    or_else(or_else(
        \* bound address and port
        Get(t.udp, from_endpoint(IpEndpoint_new(ip_repr.dst_addr, udp_repr.dst_port))),
        \* bound port only
        Get(t.udp, from_port(udp_repr.dst_port))),
        \* bound port and ip version only
        Get(t.udp, from_endpoint(IpEndpoint_new(
            unspecified_for(version(ip_repr.dst_addr)), udp_repr.dst_port))))

get_raw_socket(t, ip_version, ip_protocol) ==
    Get(t.raw, <<ip_version, ip_protocol>>)

\* add_raw_socket, were the forward entry not required to be vacant
add_raw_socket_replace(t, socket, handle) ==
    LET key == <<socket.ip_version, socket.ip_protocol>>
    IN  IF handle \notin DOMAIN t.rev_raw
        THEN [t |-> [t EXCEPT !.raw = Insert(t.raw, key, handle),
                              !.rev_raw = Insert(t.rev_raw, handle, key)],
              res |-> "Ok"]
        ELSE [t |-> t, res |-> "AlreadyInUse"]

add_raw_socket(t, socket, handle) ==
    LET key == <<socket.ip_version, socket.ip_protocol>>
    IN  IF key \notin DOMAIN t.raw /\ handle \notin DOMAIN t.rev_raw
        THEN [t |-> [t EXCEPT !.raw = Insert(t.raw, key, handle),
                              !.rev_raw = Insert(t.rev_raw, handle, key)],
              res |-> "Ok"]
        ELSE [t |-> t, res |-> "AlreadyInUse"]

\* add_udp_socket, were the forward entry not required to be vacant
add_udp_socket_replace(t, socket, handle) ==
    IF ~is_specified(socket.endpoint) /\ socket.endpoint.port = 0
    THEN [t |-> t, res |-> "Ok"]
    ELSE IF handle \notin DOMAIN t.rev_udp
         THEN [t |-> [t EXCEPT !.udp = Insert(t.udp, socket.endpoint, handle),
                               !.rev_udp = Insert(t.rev_udp, handle, socket.endpoint)],
               res |-> "Ok"]
         ELSE [t |-> t, res |-> "AlreadyInUse"]

\* add_udp_socket, were every endpoint with port 0 skipped
add_udp_socket_skip_port_zero(t, socket, handle) ==
    IF socket.endpoint.port = 0
    THEN [t |-> t, res |-> "Ok"]
    ELSE IF socket.endpoint \notin DOMAIN t.udp /\ handle \notin DOMAIN t.rev_udp
         THEN [t |-> [t EXCEPT !.udp = Insert(t.udp, socket.endpoint, handle),
                               !.rev_udp = Insert(t.rev_udp, handle, socket.endpoint)],
               res |-> "Ok"]
         ELSE [t |-> t, res |-> "AlreadyInUse"]

add_udp_socket(t, socket, handle) ==
    IF ~is_specified(socket.endpoint) /\ socket.endpoint.port = 0
    THEN [t |-> t, res |-> "Ok"]
    ELSE IF socket.endpoint \notin DOMAIN t.udp /\ handle \notin DOMAIN t.rev_udp
         THEN [t |-> [t EXCEPT !.udp = Insert(t.udp, socket.endpoint, handle),
                               !.rev_udp = Insert(t.rev_udp, handle, socket.endpoint)],
               res |-> "Ok"]
         ELSE [t |-> t, res |-> "AlreadyInUse"]

\* the local endpoint a TCP socket is registered under: its listen endpoint,
\* else its local endpoint, else none
tcp_listen_endpoint(socket) ==
    or_else(socket.listen_endpoint,
            IF socket.local_endpoint # None
            THEN Some(from_endpoint(unwrap(socket.local_endpoint)))
            ELSE None)

\* self.tcp.entry(listen_endpoint).or_insert_with(TcpLocalEndpoint::default)
tcp_or_insert(tcp, listen_endpoint) ==
    IF listen_endpoint \in DOMAIN tcp THEN tcp
    ELSE Insert(tcp, listen_endpoint, TcpLocalEndpoint_default)

\* add_tcp_socket once the handle's reverse entry is known to be vacant
tcp_entry_insert(t, socket, handle, listen_endpoint) ==
    LET tcp1 == tcp_or_insert(t.tcp, listen_endpoint)
        tcp_endpoint == tcp1[listen_endpoint]
    IN  IF socket.remote_endpoint # None
        THEN \* socket established
             LET remote_endpoint == unwrap(socket.remote_endpoint)
             IN  IF remote_endpoint \in DOMAIN tcp_endpoint.established_sockets
                 THEN [t |-> [t EXCEPT !.tcp = tcp1], res |-> "AlreadyInUse"]
                 ELSE [t |-> [t EXCEPT
                           !.tcp = Insert(tcp1, listen_endpoint,
                               [tcp_endpoint EXCEPT !.established_sockets =
                                   Insert(@, remote_endpoint, handle)]),
                           !.rev_tcp = Insert(t.rev_tcp, handle,
                               <<listen_endpoint, Some(remote_endpoint)>>)],
                       res |-> "Ok"]
        ELSE \* socket not established
             [t |-> [t EXCEPT
                 !.tcp = Insert(tcp1, listen_endpoint,
                     [tcp_endpoint EXCEPT !.listen_sockets = @ \cup {handle}]),
                 !.rev_tcp = Insert(t.rev_tcp, handle, <<listen_endpoint, None>>)],
              res |-> "Ok"]

\* add_tcp_socket, were the handle's reverse entry not required to be vacant
add_tcp_socket_no_rev_check(t, socket, handle) ==
    LET le == tcp_listen_endpoint(socket)
    IN  IF le = None THEN [t |-> t, res |-> "Ok"]
        ELSE tcp_entry_insert(t, socket, handle, unwrap(le))

\* add_tcp_socket, were the Local-Endpoint Entry created before the handle's
\* reverse entry is looked at
add_tcp_socket_entry_first(t, socket, handle) ==
    LET le == tcp_listen_endpoint(socket)
    IN  IF le = None THEN [t |-> t, res |-> "Ok"]
        ELSE IF handle \in DOMAIN t.rev_tcp
             THEN [t |-> [t EXCEPT !.tcp = tcp_or_insert(t.tcp, unwrap(le))],
                   res |-> "AlreadyInUse"]
             ELSE tcp_entry_insert(t, socket, handle, unwrap(le))

add_tcp_socket(t, socket, handle) ==
    LET le == tcp_listen_endpoint(socket)
    IN  IF le = None THEN [t |-> t, res |-> "Ok"]
        ELSE IF handle \in DOMAIN t.rev_tcp THEN [t |-> t, res |-> "AlreadyInUse"]
        ELSE tcp_entry_insert(t, socket, handle, unwrap(le))

remove_raw_socket(t, handle) ==
    IF handle \notin DOMAIN t.rev_raw THEN [t |-> t, res |-> "SocketNotFound"]
    ELSE IF t.rev_raw[handle] \notin DOMAIN t.raw THEN [t |-> t, res |-> "SocketNotFound"]
    ELSE [t |-> [t EXCEPT !.raw = Remove(t.raw, t.rev_raw[handle]),
                          !.rev_raw = Remove(t.rev_raw, handle)],
          res |-> "Ok"]

\* remove_udp_socket, were the remove of an unknown handle taken as done
remove_udp_socket_idempotent(t, handle) ==
    IF handle \notin DOMAIN t.rev_udp THEN [t |-> t, res |-> "Ok"]
    ELSE IF t.rev_udp[handle] \notin DOMAIN t.udp THEN [t |-> t, res |-> "SocketNotFound"]
    ELSE [t |-> [t EXCEPT !.udp = Remove(t.udp, t.rev_udp[handle]),
                          !.rev_udp = Remove(t.rev_udp, handle)],
          res |-> "Ok"]

remove_udp_socket(t, handle) ==
    IF handle \notin DOMAIN t.rev_udp THEN [t |-> t, res |-> "SocketNotFound"]
    ELSE IF t.rev_udp[handle] \notin DOMAIN t.udp THEN [t |-> t, res |-> "SocketNotFound"]
    ELSE [t |-> [t EXCEPT !.udp = Remove(t.udp, t.rev_udp[handle]),
                          !.rev_udp = Remove(t.rev_udp, handle)],
          res |-> "Ok"]

\* remove_tcp_socket, were the emptied entry left in the map
remove_if_empty_never(tcp, local_endpoint) == tcp

\* the garbage collection that ends remove_tcp_socket
remove_if_empty(tcp, local_endpoint) ==
    IF tcp[local_endpoint].listen_sockets = {}
       /\ DOMAIN tcp[local_endpoint].established_sockets = {}
    THEN Remove(tcp, local_endpoint)
    ELSE tcp

remove_tcp_socket(t, handle) ==
    IF handle \notin DOMAIN t.rev_tcp THEN [t |-> t, res |-> "SocketNotFound"]
    ELSE
      LET local_endpoint == t.rev_tcp[handle][1]
          remote_endpoint == t.rev_tcp[handle][2]
      IN  IF local_endpoint \notin DOMAIN t.tcp THEN [t |-> t, res |-> "SocketNotFound"]
          ELSE
            LET tcp_endpoint == t.tcp[local_endpoint]
            IN  IF remote_endpoint # None
                THEN IF unwrap(remote_endpoint) \in DOMAIN tcp_endpoint.established_sockets
                     THEN [t |-> [t EXCEPT
                               !.tcp = remove_if_empty(
                                   Insert(t.tcp, local_endpoint,
                                       [tcp_endpoint EXCEPT !.established_sockets =
                                           Remove(@, unwrap(remote_endpoint))]),
                                   local_endpoint),
                               !.rev_tcp = Remove(t.rev_tcp, handle)],
                           res |-> "Ok"]
                     ELSE [t |-> t, res |-> "SocketNotFound"]
                ELSE IF handle \in tcp_endpoint.listen_sockets
                     THEN [t |-> [t EXCEPT
                               !.tcp = remove_if_empty(
                                   Insert(t.tcp, local_endpoint,
                                       [tcp_endpoint EXCEPT !.listen_sockets = @ \ {handle}]),
                                   local_endpoint),
                               !.rev_tcp = Remove(t.rev_tcp, handle)],
                           res |-> "Ok"]
                     ELSE [t |-> t, res |-> "SocketNotFound"]

----------------------------------------------------------------------------
(* The sockets a caller can hand to the table *)

ListenEndpoint(addr, port) == [addr |-> addr, port |-> port]

\* any:0 (unbound), port only, version-unspecified, address and port,
\* address with port 0
ListenEndpoints ==
    {ListenEndpoint(None, 0), ListenEndpoint(None, 80), ListenEndpoint(None, 81),
     ListenEndpoint(Some("0.0.0.0"), 80), ListenEndpoint(Some("::"), 80),
     ListenEndpoint(Some("1.2.3.4"), 80), ListenEndpoint(Some("1.2.3.4"), 0)}

RawSocket(v, p) ==
    [kind |-> "raw", ip_version |-> v, ip_protocol |-> p,
     dirty |-> FALSE, on_dirty_list |-> FALSE]

UdpSocket(ep) ==
    [kind |-> "udp", endpoint |-> ep, dirty |-> FALSE, on_dirty_list |-> FALSE]

TcpSocketIn(state, le, lo, re) ==
    [kind |-> "tcp", state |-> state,
     listen_endpoint |-> le, local_endpoint |-> lo, remote_endpoint |-> re,
     dirty |-> FALSE, on_dirty_list |-> FALSE]

\* add_tcp_socket reads the endpoints alone
TcpSocket(le, lo, re) ==
    TcpSocketIn(IF le = None /\ lo = None THEN "Closed"
                ELSE IF re = None THEN "Listen" ELSE "Established", le, lo, re)

RawSockets == {RawSocket(v, p) : v \in {"Ipv4", "Ipv6"}, p \in {"Icmp", "Udp"}}

UdpSockets == {UdpSocket(ep) : ep \in ListenEndpoints}

TcpListenEndpoints == {from_port(80), from_endpoint(IpEndpoint_new("0.0.0.0", 80)),
                       from_endpoint(IpEndpoint_new("1.2.3.4", 80))}

TcpLocalEndpoints == {IpEndpoint_new("1.2.3.4", 80)}

TcpRemoteEndpoints == {IpEndpoint_new("9.9.9.9", 1234), IpEndpoint_new("9.9.9.9", 1235)}

Opt(S) == {None} \cup {Some(x) : x \in S}

TcpSockets ==
    {TcpSocket(le, lo, re) : le \in Opt(TcpListenEndpoints), lo \in Opt(TcpLocalEndpoints),
                             re \in Opt(TcpRemoteEndpoints)}

\* a socket as its constructor leaves it
NewSockets == {RawSocket("Ipv4", "Icmp"), UdpSocket(from_port(0)),
               TcpSocketIn("Closed", None, None, None)}

----------------------------------------------------------------------------
(* The table driven directly: any add_* / remove_* call, with any socket of *)
(* the handle's kind.  The three sub-tables share no state and no operation *)
(* reads or writes another kind's maps, so a behaviour holds sockets of one *)
(* kind.                                                                    *)

Init ==
    /\ table = DispatchTable_default
    /\ sockets \in {[h \in SocketHandle |-> s] : s \in NewSockets}
    /\ dirty_sockets = {}
    /\ call = [op |-> "new", handle |-> 0]
    /\ res = "Ok"

Issue(op, handle, r) ==
    /\ table' = r.t
    /\ res' = r.res
    /\ call' = [op |-> op, handle |-> handle]
    /\ UNCHANGED <<sockets, dirty_sockets>>

AddRaw ==
    \E h \in SocketHandle, s \in RawSockets :
        /\ sockets[h].kind = "raw"
        /\ Issue("add_raw_socket", h, add_raw_socket(table, s, h))

AddUdp ==
    \E h \in SocketHandle, s \in UdpSockets :
        /\ sockets[h].kind = "udp"
        /\ Issue("add_udp_socket", h, add_udp_socket(table, s, h))

AddTcp ==
    \E h \in SocketHandle, s \in TcpSockets :
        /\ sockets[h].kind = "tcp"
        /\ Issue("add_tcp_socket", h, add_tcp_socket(table, s, h))

RemoveRaw ==
    \E h \in SocketHandle :
        /\ sockets[h].kind = "raw"
        /\ Issue("remove_raw_socket", h, remove_raw_socket(table, h))

RemoveUdp ==
    \E h \in SocketHandle :
        /\ sockets[h].kind = "udp"
        /\ Issue("remove_udp_socket", h, remove_udp_socket(table, h))

RemoveTcp ==
    \E h \in SocketHandle :
        /\ sockets[h].kind = "tcp"
        /\ Issue("remove_tcp_socket", h, remove_tcp_socket(table, h))

Next == AddRaw \/ AddUdp \/ AddTcp \/ RemoveRaw \/ RemoveUdp \/ RemoveTcp

Spec == Init /\ [][Next]_vars

----------------------------------------------------------------------------
(* TrackedSocket and SocketTracker *)

\* one DispatchTable call an on_drop issued, with the Result it got
Issued(op, r) == <<[op |-> op, res |-> r.res]>>

\* the `_ => unreachable!()` arm of a match over the tagged-union socket: the
\* thread panics there
unreachable == [tag |-> "unreachable!()", state |-> <<>>]

\* TrackedSocket::new_state of the tagged-union socket: the snapshot carries
\* the variant's tag; SocketState has no variant for the other sockets
new_state(socket) ==
    CASE socket.kind = "raw" -> [tag |-> "Raw", state |-> <<>>]
      [] socket.kind = "udp" -> [tag |-> "Udp", state |-> socket.endpoint]
      [] socket.kind = "tcp" -> [tag |-> "Tcp", state |-> socket.state]
      [] OTHER -> unreachable

\* the trait's default on_drop, which raw sockets keep
default_on_drop(t, socket, state, handle) == [t |-> t, issued |-> <<>>]

\* udp on_drop, were the socket registered again on every release
udp_on_drop_always(t, socket, old_endpoint, handle) ==
    LET removed == IF is_specified(old_endpoint)
                   THEN remove_udp_socket(t, handle)
                   ELSE [t |-> t, res |-> "Ok"]
        added == add_udp_socket(removed.t, socket, handle)
    IN  [t |-> added.t,
         issued |-> (IF is_specified(old_endpoint)
                     THEN Issued("remove_udp_socket", removed) ELSE <<>>)
                    \o Issued("add_udp_socket", added)]

udp_on_drop(t, socket, old_endpoint, handle) ==
    IF old_endpoint # socket.endpoint
    THEN LET removed == IF is_specified(old_endpoint)
                        THEN remove_udp_socket(t, handle)
                        ELSE [t |-> t, res |-> "Ok"]
             added == add_udp_socket(removed.t, socket, handle)
         IN  [t |-> added.t,
              issued |-> (IF is_specified(old_endpoint)
                          THEN Issued("remove_udp_socket", removed) ELSE <<>>)
                         \o Issued("add_udp_socket", added)]
    ELSE [t |-> t, issued |-> <<>>]

\* tcp on_drop, were a socket that leaves TimeWait or Listen added again
\* without its old registration being removed first
tcp_on_drop_add_only(t, socket, state, handle) ==
    IF state = socket.state THEN [t |-> t, issued |-> <<>>]
    ELSE IF socket.state = "Closed"
    THEN LET removed == remove_tcp_socket(t, handle)
         IN  [t |-> removed.t, issued |-> Issued("remove_tcp_socket", removed)]
    ELSE IF state \in {"Closed", "TimeWait", "Listen"}
    THEN LET added == add_tcp_socket(t, socket, handle)
         IN  [t |-> added.t, issued |-> Issued("add_tcp_socket", added)]
    ELSE [t |-> t, issued |-> <<>>]

tcp_on_drop(t, socket, state, handle) ==
    IF state = socket.state THEN [t |-> t, issued |-> <<>>]
    ELSE IF socket.state = "Closed"
    THEN LET removed == remove_tcp_socket(t, handle)
         IN  [t |-> removed.t, issued |-> Issued("remove_tcp_socket", removed)]
    ELSE IF state = "Closed"
    THEN LET added == add_tcp_socket(t, socket, handle)
         IN  [t |-> added.t, issued |-> Issued("add_tcp_socket", added)]
    ELSE IF state \in {"TimeWait", "Listen"}
    THEN LET removed == remove_tcp_socket(t, handle)
             added == add_tcp_socket(removed.t, socket, handle)
         IN  [t |-> added.t,
              issued |-> Issued("remove_tcp_socket", removed)
                         \o Issued("add_tcp_socket", added)]
    ELSE [t |-> t, issued |-> <<>>]

\* TrackedSocket::on_drop of the tagged-union socket
on_drop(t, socket, state, handle) ==
    CASE state.tag = "Raw" /\ socket.kind = "raw" ->
             default_on_drop(t, socket, state.state, handle)
      [] state.tag = "Udp" /\ socket.kind = "udp" ->
             udp_on_drop(t, socket, state.state, handle)
      [] state.tag = "Tcp" /\ socket.kind = "tcp" ->
             tcp_on_drop(t, socket, state.state, handle)
      [] OTHER -> [t |-> t, issued |-> <<[op |-> "on_drop", res |-> unreachable.tag]>>]

is_dirty(socket) == socket.dirty

is_on_dirty_list(socket) == socket.on_dirty_list

set_on_dirty_list(socket, is_dirty_) == [socket EXCEPT !.on_dirty_list = is_dirty_]

\* Drop for SocketTracker, were the dirty flag not looked at
drop_enqueue_clean(t, dirty, socket, state, handle) ==
    LET d == on_drop(t, socket, state, handle)
        enqueue == ~is_on_dirty_list(socket)
    IN  [t |-> d.t,
         issued |-> d.issued,
         dirty_sockets |-> IF enqueue THEN dirty \cup {handle} ELSE dirty,
         socket |-> IF enqueue THEN set_on_dirty_list(socket, TRUE) ELSE socket]

\* Drop for SocketTracker, were the socket not marked when it is enqueued
drop_flag_unset(t, dirty, socket, state, handle) ==
    LET d == on_drop(t, socket, state, handle)
        enqueue == ~is_on_dirty_list(socket) /\ is_dirty(socket)
    IN  [t |-> d.t,
         issued |-> d.issued,
         dirty_sockets |-> IF enqueue THEN dirty \cup {handle} ELSE dirty,
         socket |-> socket]

\* Drop for SocketTracker: the table, the socket and the dirty set it leaves,
\* and the DispatchTable calls it issued.  debug_assert!(res.is_ok()) is
\* compiled out of a release build and panics in a debug build; the Results
\* are kept in issued, and the run goes on as a release build does.
drop(t, dirty, socket, state, handle) ==
    LET d == on_drop(t, socket, state, handle)
        enqueue == ~is_on_dirty_list(socket) /\ is_dirty(socket)
    IN  [t |-> d.t,
         issued |-> d.issued,
         dirty_sockets |-> IF enqueue THEN dirty \cup {handle} ELSE dirty,
         socket |-> IF enqueue THEN set_on_dirty_list(socket, TRUE) ELSE socket]

FirstError(issued) ==
    IF \E i \in DOMAIN issued : issued[i].res # "Ok"
    THEN issued[CHOOSE i \in DOMAIN issued :
                    /\ issued[i].res # "Ok"
                    /\ \A j \in DOMAIN issued : issued[j].res # "Ok" => i <= j].res
    ELSE "Ok"

----------------------------------------------------------------------------
(* What a socket can be changed to through the guard's DerefMut *)

MaxTracked == 2

TrackedHandle == 1..MaxTracked

\* udp::Socket: bind to an endpoint with a port, or close
UdpEndpointsBound == {ep \in ListenEndpoints : ep.port # 0}

UdpMutations(socket) ==
    {[socket EXCEPT !.endpoint = ep] : ep \in UdpEndpointsBound \cup {from_port(0)}}

\* raw::Socket: the version and the protocol are fixed at construction
RawMutations(socket) == {socket}

TrackedListen == from_port(80)

TrackedLocal == IpEndpoint_new("1.2.3.4", 80)

TrackedRemote == IpEndpoint_new("9.9.9.9", 1234)

\* tcp::Socket: closed; listening; connecting out; accepted from a listen
\* (the listen endpoint is kept) or connected
TcpValues ==
    {TcpSocketIn("Closed", None, None, None),
     TcpSocketIn("Listen", Some(TrackedListen), None, None),
     TcpSocketIn("SynSent", None, Some(TrackedLocal), Some(TrackedRemote)),
     TcpSocketIn("SynReceived", Some(TrackedListen), Some(TrackedLocal), Some(TrackedRemote))}
    \cup {TcpSocketIn(st, le, Some(TrackedLocal), Some(TrackedRemote)) :
              st \in {"Established", "TimeWait"}, le \in {None, Some(TrackedListen)}}

TcpMutations(socket) ==
    {[v EXCEPT !.dirty = socket.dirty, !.on_dirty_list = socket.on_dirty_list] :
        v \in TcpValues}

Mutations(socket) ==
    CASE socket.kind = "raw" -> RawMutations(socket)
      [] socket.kind = "udp" -> UdpMutations(socket)
      [] socket.kind = "tcp" -> TcpMutations(socket)

\* the socket's processing state changes too: it may come to report dirty
DirtyUdpEndpoints == {from_port(0), from_port(80)}

DirtyMutations(socket) ==
    {[m EXCEPT !.dirty = d] :
        m \in (CASE socket.kind = "raw" -> {socket}
                 [] socket.kind = "udp" ->
                        {[socket EXCEPT !.endpoint = ep] : ep \in DirtyUdpEndpoints}
                 [] socket.kind = "tcp" ->
                        {v \in TcpMutations(socket) : v.state \in {"Closed", "Listen"}}),
        d \in BOOLEAN}

\* whether the table holds handle h as socket s's state asks
UdpRegistrationMatches(t, h, s) ==
    IF ~is_specified(s.endpoint) /\ s.endpoint.port = 0
    THEN /\ h \notin DOMAIN t.rev_udp
         /\ \A k \in DOMAIN t.udp : t.udp[k] # h
    ELSE /\ h \in DOMAIN t.rev_udp /\ t.rev_udp[h] = s.endpoint
         /\ \A k \in DOMAIN t.udp : t.udp[k] = h <=> k = s.endpoint

TcpRegistrationMatches(t, h, s) ==
    IF s.state = "Closed" THEN h \notin DOMAIN t.rev_tcp
    ELSE /\ h \in DOMAIN t.rev_tcp
         /\ t.rev_tcp[h] = <<IF s.listen_endpoint # None THEN unwrap(s.listen_endpoint)
                              ELSE from_endpoint(unwrap(s.local_endpoint)),
                             s.remote_endpoint>>

RegistrationMatches(t, h, s) ==
    CASE s.kind = "raw" -> TRUE
      [] s.kind = "udp" -> UdpRegistrationMatches(t, h, s)
      [] s.kind = "tcp" -> TcpRegistrationMatches(t, h, s)

----------------------------------------------------------------------------
(* The table driven through the tracker: sockets are created, then changed  *)
(* under a guard only.  The guard borrows the table, the dirty set and its  *)
(* socket exclusively from SocketTracker::new to drop, so nothing else runs *)
(* in between: acquiring it, changing the socket and releasing it are one   *)
(* step, and what the changes inside the guard come to is the socket they   *)
(* leave.  on_drop reads and writes the table and the socket's endpoints    *)
(* and state; the rest of drop reads and writes the dirty flags and the     *)
(* dirty set.  TrackerSpec puts the socket through every change of its      *)
(* endpoints and state, DirtySpec through every change of its dirty flag.   *)

\* add_*_socket at creation, in handle order
RECURSIVE Created(_, _, _)
Created(t, socks, h) ==
    IF h > MaxTracked THEN t
    ELSE Created((CASE socks[h].kind = "raw" -> add_raw_socket(t, socks[h], h)
                    [] socks[h].kind = "udp" -> add_udp_socket(t, socks[h], h)
                    [] socks[h].kind = "tcp" -> add_tcp_socket(t, socks[h], h)
                    [] OTHER -> [t |-> t, res |-> "Ok"]).t,
                 socks, h + 1)

TrackerInit ==
    /\ sockets \in {[h \in TrackedHandle |-> s] : s \in NewSockets}
    /\ table = Created(DispatchTable_default, sockets, 1)
    /\ dirty_sockets = {}
    /\ call = [op |-> "new", handle |-> 0, matched |-> TRUE]
    /\ res = "Ok"

\* SocketTracker::new over socket h, the changes made through the guard
\* (they leave the socket as `socket`), drop
Guard(h, socket) ==
    LET state == new_state(sockets[h])
        d == drop(table, dirty_sockets, socket, state, h)
    IN  /\ table' = d.t
        /\ sockets' = [sockets EXCEPT ![h] = d.socket]
        /\ dirty_sockets' = d.dirty_sockets
        /\ call' = [op |-> "drop", handle |-> h,
                    matched |-> RegistrationMatches(table, h, sockets[h]),
                    state |-> state, issued |-> d.issued]
        /\ res' = FirstError(d.issued)

Track == \E h \in TrackedHandle : \E socket \in Mutations(sockets[h]) : Guard(h, socket)

TrackerNext == Track

TrackerSpec == TrackerInit /\ [][TrackerNext]_vars

TrackDirty ==
    \E h \in TrackedHandle : \E socket \in DirtyMutations(sockets[h]) : Guard(h, socket)

\* the poll loop takes one handle off the dirty set and clears its flag
Drain ==
    \E h \in dirty_sockets :
        /\ dirty_sockets' = dirty_sockets \ {h}
        /\ sockets' = [sockets EXCEPT ![h] = set_on_dirty_list(@, FALSE)]
        /\ call' = [op |-> "drain", handle |-> h,
                    matched |-> RegistrationMatches(table, h, sockets[h])]
        /\ UNCHANGED <<table, res>>

DirtyNext == TrackDirty \/ Drain

DirtySpec == TrackerInit /\ [][DirtyNext]_vars

----------------------------------------------------------------------------
(* The sockets that have no dispatch table: icmp, dhcpv4 and dns.  Their    *)
(* three TrackedSocket implementations are the same: a unit snapshot, the   *)
(* default on_drop, and dirty flags that do not look at the socket.         *)

EmptyKinds == {"icmp", "dhcpv4", "dns"}

\* `dirty` is whether the socket has work pending, which the implementation
\* does not ask for
EmptySocket(kind) == [kind |-> kind, dirty |-> FALSE, on_dirty_list |-> FALSE]

empty_new_state(socket) == <<>>

\* the implementation, were the socket asked whether it has work pending
empty_is_dirty_delegated(socket) == socket.dirty

empty_is_dirty(socket) == FALSE

empty_is_on_dirty_list(socket) == FALSE

empty_set_on_dirty_list(socket, is_dirty_) == socket

\* Drop for SocketTracker<T>, T one of icmp::Socket, dhcpv4::Socket and
\* dns::Socket
empty_drop(t, dirty, socket, state, handle) ==
    LET d == default_on_drop(t, socket, state, handle)
        enqueue == ~empty_is_on_dirty_list(socket) /\ empty_is_dirty(socket)
    IN  [t |-> d.t,
         issued |-> d.issued,
         dirty_sockets |-> IF enqueue THEN dirty \cup {handle} ELSE dirty,
         socket |-> IF enqueue THEN empty_set_on_dirty_list(socket, TRUE) ELSE socket]

----------------------------------------------------------------------------
(* Guards over every kind of socket, taken over the socket's own type       *)
(* (SocketTracker<udp::Socket>) or over the tagged union                    *)
(* (SocketTracker<Socket>).  For raw, udp and tcp the union delegates to    *)
(* the variant, so the two guards do the same.                              *)

AnySockets == NewSockets \cup {EmptySocket(kind) : kind \in EmptyKinds}

VariantInit ==
    /\ sockets \in {[h \in TrackedHandle |-> s] : s \in AnySockets}
    /\ table = Created(DispatchTable_default, sockets, 1)
    /\ dirty_sockets = {}
    /\ call = [op |-> "new", handle |-> 0, matched |-> TRUE]
    /\ res = "Ok"

VariantMutations(socket) ==
    IF socket.kind \in EmptyKinds
    THEN {[socket EXCEPT !.dirty = d] : d \in BOOLEAN}
    ELSE DirtyMutations(socket)

\* SocketTracker::new over socket h of an empty kind, the changes made
\* through the guard, drop
GuardEmpty(h, socket) ==
    LET state == empty_new_state(sockets[h])
        d == empty_drop(table, dirty_sockets, socket, state, h)
    IN  /\ table' = d.t
        /\ sockets' = [sockets EXCEPT ![h] = d.socket]
        /\ dirty_sockets' = d.dirty_sockets
        /\ call' = [op |-> "drop", handle |-> h, matched |-> TRUE,
                    state |-> state, issued |-> d.issued]
        /\ res' = FirstError(d.issued)

\* a panic: the guard is not built and the thread unwinds
Panic(h) ==
    /\ call' = [op |-> "panic", handle |-> h, matched |-> TRUE]
    /\ res' = unreachable.tag
    /\ UNCHANGED <<table, sockets, dirty_sockets>>

\* a guard over the socket's own type
TrackConcrete ==
    /\ call.op # "panic"
    /\ \E h \in TrackedHandle : \E socket \in VariantMutations(sockets[h]) :
          IF sockets[h].kind \in EmptyKinds
          THEN GuardEmpty(h, socket)
          ELSE Guard(h, socket)

\* a guard over the tagged union: SocketTracker::new calls new_state first
TrackUnion ==
    /\ call.op # "panic"
    /\ \E h \in TrackedHandle : \E socket \in VariantMutations(sockets[h]) :
          IF new_state(sockets[h]).tag = unreachable.tag
          THEN Panic(h)
          ELSE Guard(h, socket)

VariantDrain == call.op # "panic" /\ Drain

VariantNext == TrackConcrete \/ TrackUnion \/ VariantDrain

VariantSpec == VariantInit /\ [][VariantNext]_vars

----------------------------------------------------------------------------
(* Packets a lookup is asked about *)

DstAddrs == {"1.2.3.4", "5.6.7.8", "0.0.0.0", "::", "fe80::1"}

DstPorts == {0, 80, 81}

SrcEndpoints == {IpEndpoint_new("9.9.9.9", 1234), IpEndpoint_new("9.9.9.9", 1235),
                 IpEndpoint_new("5.6.7.8", 1234)}

IpRepr(src_addr, dst_addr) == [src_addr |-> src_addr, dst_addr |-> dst_addr]

PortRepr(src_port, dst_port) == [src_port |-> src_port, dst_port |-> dst_port]

\* The keys a packet to (a, p) may be served from, most specific first.
KeyExact(a, p) == [addr |-> <<a>>, port |-> p]

KeyAnyAddr(p) == [addr |-> <<>>, port |-> p]

KeyVersionUnspecified(a, p) ==
    [addr |-> <<IF a \in Ipv4Addresses THEN "0.0.0.0" ELSE "::">>, port |-> p]

Unchanged(t, result) == [t |-> t, res |-> result]

----------------------------------------------------------------------------
(* C1 *)

RawStoredAt(t, h, k) == k \in DOMAIN t.raw /\ t.raw[k] = h

UdpStoredAt(t, h, k) == k \in DOMAIN t.udp /\ t.udp[k] = h

TcpStoredAt(t, h, k, r) ==
    /\ k \in DOMAIN t.tcp
    /\ IF r = None THEN h \in t.tcp[k].listen_sockets
       ELSE /\ unwrap(r) \in DOMAIN t.tcp[k].established_sockets
            /\ t.tcp[k].established_sockets[unwrap(r)] = h

RawKeys(t) == DOMAIN t.raw \cup {t.rev_raw[h] : h \in DOMAIN t.rev_raw}

UdpKeys(t) == DOMAIN t.udp \cup {t.rev_udp[h] : h \in DOMAIN t.rev_udp}

TcpLocalKeys(t) == DOMAIN t.tcp \cup {t.rev_tcp[h][1] : h \in DOMAIN t.rev_tcp}

TcpRemoteKeys(t) ==
    {None} \cup {t.rev_tcp[h][2] : h \in DOMAIN t.rev_tcp}
           \cup UNION {{Some(r) : r \in DOMAIN t.tcp[k].established_sockets} : k \in DOMAIN t.tcp}

\* C1: in each sub-table a handle is in the reverse map with key k exactly
\* when the forward map stores that handle at k (for TCP: in the listening
\* set of k when the stored remote is None, under the stored remote in the
\* established map of k otherwise); hence no other forward entry holds it.
Bijection ==
    /\ \A h \in SocketHandle, k \in RawKeys(table) :
         (h \in DOMAIN table.rev_raw /\ table.rev_raw[h] = k) <=> RawStoredAt(table, h, k)
    /\ \A h \in SocketHandle, k \in UdpKeys(table) :
         (h \in DOMAIN table.rev_udp /\ table.rev_udp[h] = k) <=> UdpStoredAt(table, h, k)
    /\ \A h \in SocketHandle, k \in TcpLocalKeys(table), r \in TcpRemoteKeys(table) :
         (h \in DOMAIN table.rev_tcp /\ table.rev_tcp[h] = <<k, r>>)
             <=> TcpStoredAt(table, h, k, r)

\* A failed add has just returned while a listening and an established TCP
\* socket are registered.
BijectionWitness ==
    /\ call.op = "add_tcp_socket" /\ res = "AlreadyInUse"
    /\ \E h1, h2 \in DOMAIN table.rev_tcp :
         table.rev_tcp[h1][2] = None /\ table.rev_tcp[h2][2] # None

----------------------------------------------------------------------------
(* C2 *)

\* the local endpoint add_tcp_socket registers a socket under, if any
TargetLocal(s) ==
    IF s.listen_endpoint # None THEN s.listen_endpoint
    ELSE IF s.local_endpoint # None
         THEN <<[addr |-> <<s.local_endpoint[1].addr>>, port |-> s.local_endpoint[1].port]>>
         ELSE None

RawOccupiedByOther(t, s, h) ==
    \E h1 \in SocketHandle \ {h} : RawStoredAt(t, h1, <<s.ip_version, s.ip_protocol>>)

UdpOccupiedByOther(t, s, h) ==
    \E h1 \in SocketHandle \ {h} : UdpStoredAt(t, h1, s.endpoint)

TcpOccupiedByOther(t, s, h) ==
    /\ s.remote_endpoint # None
    /\ TargetLocal(s) # None
    /\ \E h1 \in SocketHandle \ {h} :
         TcpStoredAt(t, h1, unwrap(TargetLocal(s)), s.remote_endpoint)

\* C2: an add whose target key (raw (version, protocol); UDP endpoint; TCP
\* (local, remote)) is held by a different handle returns AlreadyInUse and
\* leaves all six maps as they were.
NoOverwrite ==
    /\ \A h \in SocketHandle, s \in RawSockets :
         RawOccupiedByOther(table, s, h)
             => add_raw_socket(table, s, h) = Unchanged(table, "AlreadyInUse")
    /\ \A h \in SocketHandle, s \in UdpSockets :
         UdpOccupiedByOther(table, s, h)
             => add_udp_socket(table, s, h) = Unchanged(table, "AlreadyInUse")
    /\ \A h \in SocketHandle, s \in TcpSockets :
         TcpOccupiedByOther(table, s, h)
             => add_tcp_socket(table, s, h) = Unchanged(table, "AlreadyInUse")

\* An add of a handle that is registered nowhere has just failed: its key
\* was held by another handle.
NoOverwriteWitness ==
    /\ res = "AlreadyInUse"
    /\ \/ call.op = "add_raw_socket" /\ call.handle \notin DOMAIN table.rev_raw
             /\ DOMAIN table.raw # {}
       \/ call.op = "add_udp_socket" /\ call.handle \notin DOMAIN table.rev_udp
             /\ DOMAIN table.udp # {}
       \/ call.op = "add_tcp_socket" /\ call.handle \notin DOMAIN table.rev_tcp
             /\ DOMAIN table.tcp # {}

----------------------------------------------------------------------------
(* C3 *)

\* add_udp_socket and add_tcp_socket return before they look at the maps
UdpUnaddressable(s) == ~is_specified(s.endpoint) /\ s.endpoint.port = 0

TcpUnaddressable(s) == s.listen_endpoint = None /\ s.local_endpoint = None

\* C3 as claimed: an add with a handle already in the sub-table's reverse
\* map returns AlreadyInUse and changes neither map.
DoubleRegistrationAlwaysFails ==
    /\ \A h \in DOMAIN table.rev_raw, s \in RawSockets :
         add_raw_socket(table, s, h) = Unchanged(table, "AlreadyInUse")
    /\ \A h \in DOMAIN table.rev_udp, s \in UdpSockets :
         add_udp_socket(table, s, h) = Unchanged(table, "AlreadyInUse")
    /\ \A h \in DOMAIN table.rev_tcp, s \in TcpSockets :
         add_tcp_socket(table, s, h) = Unchanged(table, "AlreadyInUse")

\* C3 as amended: an add with a handle already in the sub-table's reverse map
\* changes neither map; it returns AlreadyInUse, except that add_udp_socket
\* of an endpoint that is not specified and has port 0, and add_tcp_socket of
\* a socket with neither a listen nor a local endpoint, return Ok.  No add_tcp_socket
\* that fails leaves a new Local-Endpoint Entry behind.
DoubleRegistration ==
    /\ \A h \in DOMAIN table.rev_raw, s \in RawSockets :
         add_raw_socket(table, s, h) = Unchanged(table, "AlreadyInUse")
    /\ \A h \in DOMAIN table.rev_udp, s \in UdpSockets :
         add_udp_socket(table, s, h) =
             Unchanged(table, IF UdpUnaddressable(s) THEN "Ok" ELSE "AlreadyInUse")
    /\ \A h \in DOMAIN table.rev_tcp, s \in TcpSockets :
         add_tcp_socket(table, s, h) =
             Unchanged(table, IF TcpUnaddressable(s) THEN "Ok" ELSE "AlreadyInUse")
    /\ \A h \in SocketHandle, s \in TcpSockets :
         add_tcp_socket(table, s, h).res = "AlreadyInUse"
             => add_tcp_socket(table, s, h).t = table

\* An add of a handle that is registered has just failed.
DoubleRegistrationWitness ==
    /\ res = "AlreadyInUse"
    /\ \/ call.op = "add_raw_socket" /\ call.handle \in DOMAIN table.rev_raw
       \/ call.op = "add_udp_socket" /\ call.handle \in DOMAIN table.rev_udp
       \/ call.op = "add_tcp_socket" /\ call.handle \in DOMAIN table.rev_tcp

----------------------------------------------------------------------------
(* C4 *)

EntryEmpty(e) == e.listen_sockets = {} /\ DOMAIN e.established_sockets = {}

HandlesAt(t, k) ==
    {h \in DOMAIN t.rev_tcp : t.rev_tcp[h][1] = k}

\* C4: every Local-Endpoint Entry of the TCP forward map has a listening
\* socket or an established one, and the remove_tcp_socket of the last
\* handle at a local endpoint takes that endpoint out of the forward map.
EmptyEntryGC ==
    /\ \A k \in DOMAIN table.tcp : ~EntryEmpty(table.tcp[k])
    /\ \A h \in DOMAIN table.rev_tcp :
         HandlesAt(table, table.rev_tcp[h][1]) = {h}
             => table.rev_tcp[h][1] \notin DOMAIN remove_tcp_socket(table, h).t.tcp

\* The last TCP handle has just been removed, and no entry is left.
EmptyEntryGCWitness ==
    /\ call.op = "remove_tcp_socket" /\ res = "Ok"
    /\ DOMAIN table.rev_tcp = {} /\ DOMAIN table.tcp = {}

----------------------------------------------------------------------------
(* C5 *)

TcpPlaces(t, h) ==
    {<<k, None>> : k \in {k \in DOMAIN t.tcp : h \in t.tcp[k].listen_sockets}}
    \cup UNION {{<<k, Some(r)>> : r \in {r \in DOMAIN t.tcp[k].established_sockets :
                                          t.tcp[k].established_sockets[r] = h}}
                : k \in DOMAIN t.tcp}

\* C5: a handle of rev_tcp is in exactly one place of the TCP forward map
\* (one listening set, or one remote key of one established map), and every
\* handle of the forward map is in rev_tcp.
TcpSinglePlace ==
    \A h \in SocketHandle :
        Cardinality(TcpPlaces(table, h)) = (IF h \in DOMAIN table.rev_tcp THEN 1 ELSE 0)

\* Two handles listen at one local endpoint while a third is established.
TcpSinglePlaceWitness ==
    \E k \in DOMAIN table.tcp :
        /\ Cardinality(table.tcp[k].listen_sockets) >= 2
        /\ \E k2 \in DOMAIN table.tcp : DOMAIN table.tcp[k2].established_sockets # {}

----------------------------------------------------------------------------
(* C6 *)

UdpExpected(t, a, p) ==
    IF KeyExact(a, p) \in DOMAIN t.udp THEN Some(t.udp[KeyExact(a, p)])
    ELSE IF KeyAnyAddr(p) \in DOMAIN t.udp THEN Some(t.udp[KeyAnyAddr(p)])
    ELSE IF KeyVersionUnspecified(a, p) \in DOMAIN t.udp
         THEN Some(t.udp[KeyVersionUnspecified(a, p)])
    ELSE None

\* C6: get_udp_socket returns the handle at (a, p) if that key exists, else
\* the one at (any, p), else the one at (unspecified address of a's version,
\* p), else None; the handle it returns is stored under no other key.
UdpLookupPrecedence ==
    \A a \in DstAddrs, p \in DstPorts, src \in SrcEndpoints :
        LET got == get_udp_socket(table, IpRepr(src.addr, a), PortRepr(src.port, p))
        IN  /\ got = UdpExpected(table, a, p)
            /\ got # None =>
                 \A k \in DOMAIN table.udp :
                     table.udp[k] = unwrap(got)
                         => k \in {KeyExact(a, p), KeyAnyAddr(p), KeyVersionUnspecified(a, p)}

\* Sockets are bound to (1.2.3.4, 80), to (0.0.0.0, 80) and to port 80 alone.
UdpLookupPrecedenceWitness ==
    /\ call.op = "add_udp_socket" /\ res = "Ok"
    /\ {KeyExact("1.2.3.4", 80), KeyExact("0.0.0.0", 80), KeyAnyAddr(80)}
           \subseteq DOMAIN table.udp

----------------------------------------------------------------------------
(* C7 *)

\* the Local-Endpoint Entry a packet to (a, p) resolves to
TcpResolved(t, a, p) ==
    IF KeyExact(a, p) \in DOMAIN t.tcp THEN Some(t.tcp[KeyExact(a, p)])
    ELSE IF KeyAnyAddr(p) \in DOMAIN t.tcp THEN Some(t.tcp[KeyAnyAddr(p)])
    ELSE IF KeyVersionUnspecified(a, p) \in DOMAIN t.tcp
         THEN Some(t.tcp[KeyVersionUnspecified(a, p)])
    ELSE None

TcpGot(a, p, src) == get_tcp_socket(table, IpRepr(src.addr, a), PortRepr(src.port, p))

\* C7 as claimed: when the resolved entry holds a listening handle and an
\* established handle E under r, a packet from r gets E and a packet from any
\* other source gets a member of the listening set.
EstablishedOverListenAnyOther ==
    \A a \in DstAddrs, p \in DstPorts :
        LET e == TcpResolved(table, a, p)
        IN  e # None /\ unwrap(e).listen_sockets # {} =>
              \A r \in DOMAIN unwrap(e).established_sockets, src \in SrcEndpoints :
                  IF src = r
                  THEN TcpGot(a, p, src) = Some(unwrap(e).established_sockets[r])
                  ELSE /\ TcpGot(a, p, src) # None
                       /\ unwrap(TcpGot(a, p, src)) \in unwrap(e).listen_sockets

\* C7 as amended: ... and a packet from any other source that is not itself a
\* remote-endpoint key of that entry's established map gets a member of the
\* listening set.
EstablishedOverListen ==
    \A a \in DstAddrs, p \in DstPorts :
        LET e == TcpResolved(table, a, p)
        IN  e # None /\ unwrap(e).listen_sockets # {} =>
              \A r \in DOMAIN unwrap(e).established_sockets, src \in SrcEndpoints :
                  IF src = r
                  THEN TcpGot(a, p, src) = Some(unwrap(e).established_sockets[r])
                  ELSE src \notin DOMAIN unwrap(e).established_sockets
                       => /\ TcpGot(a, p, src) # None
                          /\ unwrap(TcpGot(a, p, src)) \in unwrap(e).listen_sockets

\* A socket listens on port 80 and another is established there with
\* 9.9.9.9:1234.
EstablishedOverListenWitness ==
    /\ KeyAnyAddr(80) \in DOMAIN table.tcp
    /\ table.tcp[KeyAnyAddr(80)].listen_sockets # {}
    /\ IpEndpoint_new("9.9.9.9", 1234) \in DOMAIN table.tcp[KeyAnyAddr(80)].established_sockets

----------------------------------------------------------------------------
(* C8 *)

\* C8 as claimed: get_tcp_socket returns None only when no Local-Endpoint
\* Entry matches the destination under the 3-step fallback.
TcpNoneOnlyWithoutEntry ==
    \A a \in DstAddrs, p \in DstPorts, src \in SrcEndpoints :
        TcpGot(a, p, src) = None => TcpResolved(table, a, p) = None

\* C8 as amended: get_tcp_socket returns None exactly when no Local-Endpoint
\* Entry matches the destination under the 3-step fallback, or the entry
\* found has no listening socket and no established socket keyed by the
\* packet's source; an entry with neither listening nor established sockets
\* is never found.
TcpNoneCases ==
    \A a \in DstAddrs, p \in DstPorts, src \in SrcEndpoints :
        LET e == TcpResolved(table, a, p)
        IN  /\ TcpGot(a, p, src) = None
                <=> \/ e = None
                    \/ /\ unwrap(e).listen_sockets = {}
                       /\ src \notin DOMAIN unwrap(e).established_sockets
            /\ e # None => ~EntryEmpty(unwrap(e))

\* Port 80 holds established sockets only, none of them with 5.6.7.8:1234.
TcpNoneCasesWitness ==
    /\ KeyAnyAddr(80) \in DOMAIN table.tcp
    /\ table.tcp[KeyAnyAddr(80)].listen_sockets = {}
    /\ DOMAIN table.tcp[KeyAnyAddr(80)].established_sockets # {}
    /\ TcpGot("1.2.3.4", 80, IpEndpoint_new("5.6.7.8", 1234)) = None

----------------------------------------------------------------------------
(* C9 *)

\* C9: a remove of a handle with no reverse entry returns SocketNotFound and
\* changes no map; so does the remove that follows a successful remove of
\* the same handle.
RemoveUnknown ==
    /\ \A h \in SocketHandle \ DOMAIN table.rev_raw :
         remove_raw_socket(table, h) = Unchanged(table, "SocketNotFound")
    /\ \A h \in SocketHandle \ DOMAIN table.rev_udp :
         remove_udp_socket(table, h) = Unchanged(table, "SocketNotFound")
    /\ \A h \in SocketHandle \ DOMAIN table.rev_tcp :
         remove_tcp_socket(table, h) = Unchanged(table, "SocketNotFound")
    /\ res = "Ok" /\ call.op = "remove_raw_socket"
         => remove_raw_socket(table, call.handle) = Unchanged(table, "SocketNotFound")
    /\ res = "Ok" /\ call.op = "remove_udp_socket"
         => remove_udp_socket(table, call.handle) = Unchanged(table, "SocketNotFound")
    /\ res = "Ok" /\ call.op = "remove_tcp_socket"
         => remove_tcp_socket(table, call.handle) = Unchanged(table, "SocketNotFound")

\* A remove has just failed while other handles stay registered.
RemoveUnknownWitness ==
    /\ res = "SocketNotFound"
    /\ \/ call.op = "remove_raw_socket" /\ DOMAIN table.rev_raw # {}
       \/ call.op = "remove_udp_socket" /\ DOMAIN table.rev_udp # {}
       \/ call.op = "remove_tcp_socket" /\ DOMAIN table.rev_tcp # {}

----------------------------------------------------------------------------
(* C10 *)

\* C10: once the guard over a UDP socket whose registration matched its
\* endpoint at acquisition is released, the handle is registered exactly at
\* the socket's current endpoint, or nowhere if that endpoint has an
\* unspecified address and port 0.
IndexFollowsUdp ==
    (call.op = "drop" /\ call.matched /\ sockets[call.handle].kind = "udp")
        => UdpRegistrationMatches(table, call.handle, sockets[call.handle])

----------------------------------------------------------------------------
(* C11 *)

\* C11: once the guard over a TCP socket whose registration matched its state
\* at acquisition is released, the handle is in rev_tcp if and only if the
\* state is not Closed, and its reverse entry is (listen endpoint if set,
\* else local endpoint; remote endpoint).
IndexFollowsTcp ==
    (call.op = "drop" /\ call.matched /\ sockets[call.handle].kind = "tcp")
        => TcpRegistrationMatches(table, call.handle, sockets[call.handle])

----------------------------------------------------------------------------
(* C12 *)

\* the guard just released was taken over a registered, listening TCP socket
\* that gained a remote endpoint and left Listen for a state other than Closed
ListenGainedRemote ==
    /\ call.op = "drop" /\ call.matched
    /\ call.state.tag = "Tcp" /\ call.state.state = "Listen"
    /\ sockets[call.handle].state \notin {"Listen", "Closed"}
    /\ sockets[call.handle].remote_endpoint # None

\* handle h is established under r at local endpoint l: not in any listening
\* set, the value under r in l's established map, (l, Some(r)) in rev_tcp
EstablishedAt(t, h, l, r) ==
    /\ \A k \in DOMAIN t.tcp : h \notin t.tcp[k].listen_sockets
    /\ l \in DOMAIN t.tcp
    /\ r \in DOMAIN t.tcp[l].established_sockets
    /\ t.tcp[l].established_sockets[r] = h
    /\ h \in DOMAIN t.rev_tcp
    /\ t.rev_tcp[h] = <<l, Some(r)>>

\* another handle than h is stored under r at local endpoint l
HeldByOther(t, h, l, r) ==
    /\ l \in DOMAIN t.tcp
    /\ r \in DOMAIN t.tcp[l].established_sockets
    /\ t.tcp[l].established_sockets[r] # h

----------------------------------------------------------------------------
(* C13 *)

\* what of a socket the dispatch table depends on
DispatchRelevant(s) ==
    CASE s.kind = "raw" -> <<>>
      [] s.kind = "udp" -> <<s.endpoint>>
      [] s.kind = "tcp" -> <<s.state, s.listen_endpoint, s.local_endpoint, s.remote_endpoint>>

\* C13: a guard acquired and released over a raw, UDP or TCP socket whose
\* dispatch-relevant state is the same at release as at acquisition issues no
\* add_* or remove_* call and leaves the six maps as they were.
TrackerNoOp ==
    [][\A h \in TrackedHandle :
          (/\ call'.op = "drop" /\ call'.handle = h
           /\ DispatchRelevant(sockets'[h]) = DispatchRelevant(sockets[h]))
              => call'.issued = <<>> /\ table' = table]_vars

\* A guard over a bound, registered UDP socket has been released with the
\* endpoint it was acquired with, and no call was issued.
TrackerNoOpWitness ==
    /\ call.op = "drop" /\ call.state.tag = "Udp"
    /\ call.state.state = sockets[call.handle].endpoint
    /\ sockets[call.handle].endpoint.port # 0
    /\ call.handle \in DOMAIN table.rev_udp
    /\ call.issued = <<>>

----------------------------------------------------------------------------
(* C14 *)

\* C14: on release the handle is inserted into the dirty set only if the
\* socket reports is_on_dirty_list() = false and is_dirty() = true; a socket
\* that reports on-dirty-list = true causes no insertion and no change to the
\* dirty set, whatever its dirty flag.
SingleEnqueue ==
    [][\A h \in TrackedHandle :
          (call'.op = "drop" /\ call'.handle = h) =>
              /\ dirty_sockets' # dirty_sockets
                   => /\ ~is_on_dirty_list(sockets[h]) /\ is_dirty(sockets'[h])
                      /\ dirty_sockets' = dirty_sockets \cup {h}
              /\ is_on_dirty_list(sockets[h])
                   => /\ dirty_sockets' = dirty_sockets
                      /\ is_on_dirty_list(sockets'[h])]_vars

\* A guard has been released over a socket that is on the dirty list and does
\* not report dirty: it was on the list when the guard was acquired, and it
\* and the other enqueued handle are in the dirty set once each.
SingleEnqueueWitness ==
    /\ call.op = "drop"
    /\ is_on_dirty_list(sockets[call.handle]) /\ ~is_dirty(sockets[call.handle])
    /\ dirty_sockets = TrackedHandle

----------------------------------------------------------------------------
(* C15 *)

\* handle h is registered at UDP key ep, and the rest of the table is as in t
UdpIndexedAt(t, t1, h, ep) ==
    /\ h \in DOMAIN t1.rev_udp /\ t1.rev_udp[h] = ep
    /\ ep \in DOMAIN t1.udp /\ t1.udp[ep] = h
    /\ \A k \in DOMAIN t1.udp \ {ep} : k \in DOMAIN t.udp /\ t1.udp[k] = t.udp[k]
    /\ DOMAIN t1.udp = DOMAIN t.udp \cup {ep}

\* C15: on every reachable table, add_udp_socket for an endpoint with an
\* unspecified address and port 0, and add_tcp_socket for a socket with
\* neither a listen nor a local endpoint, return Ok and leave the table as it
\* is; add_udp_socket for any other endpoint (a specified address with port
\* 0 and a wildcard address with a port among them) goes on to the maps: it
\* registers the handle at that endpoint unless the key or the handle is
\* taken.
UnaddressableNotIndexed ==
    /\ \A h \in SocketHandle, s \in UdpSockets :
          LET r == add_udp_socket(table, s, h)
          IN  IF s.endpoint.addr = None /\ s.endpoint.port = 0
              THEN r = Unchanged(table, "Ok")
              ELSE IF h \in DOMAIN table.rev_udp \/ s.endpoint \in DOMAIN table.udp
              THEN r = Unchanged(table, "AlreadyInUse")
              ELSE r.res = "Ok" /\ UdpIndexedAt(table, r.t, h, s.endpoint)
    /\ \A h \in SocketHandle, s \in TcpSockets :
          s.listen_endpoint = None /\ s.local_endpoint = None
              => add_tcp_socket(table, s, h) = Unchanged(table, "Ok")

\* One handle is registered at an address with port 0, another at the
\* wildcard address with port 80, and an add_udp_socket for a third has just
\* returned Ok without registering it.
UnaddressableNotIndexedWitness ==
    /\ ListenEndpoint(Some("1.2.3.4"), 0) \in DOMAIN table.udp
    /\ ListenEndpoint(None, 80) \in DOMAIN table.udp
    /\ call.op = "add_udp_socket" /\ res = "Ok"
    /\ call.handle \notin DOMAIN table.rev_udp

----------------------------------------------------------------------------
(* C16 *)

\* C16: every add_* and remove_* call the tracker issues on guard release
\* returns Ok.
TrackerCallsOk ==
    call.op = "drop" => \A i \in DOMAIN call.issued : call.issued[i].res = "Ok"

----------------------------------------------------------------------------
(* C17 *)

\* the DispatchTable calls a release issued, in order
IssuedOps(issued) == [i \in DOMAIN issued |-> issued[i].op]

\* the calls C17 asks for on a release with snapshot state s and current
\* state t
TcpPolicy(s, t) ==
    IF s = t THEN <<>>
    ELSE IF t = "Closed" THEN <<"remove_tcp_socket">>
    ELSE IF s = "Closed" THEN <<"add_tcp_socket">>
    ELSE IF s \in {"Listen", "TimeWait"} \/ t \in {"Listen", "TimeWait"}
    THEN <<"remove_tcp_socket", "add_tcp_socket">>
    ELSE <<>>

\* C17: on release with snapshot state s and current state t the tracker
\* issues no call if s = t, one remove_tcp_socket if t is Closed, one
\* add_tcp_socket if s is Closed, remove_tcp_socket then add_tcp_socket if
\* neither is Closed and s or t is Listen or TimeWait, and no call otherwise.
TcpDiffPolicy ==
    (call.op = "drop" /\ call.state.tag = "Tcp")
        => IssuedOps(call.issued) = TcpPolicy(call.state.state, sockets[call.handle].state)

----------------------------------------------------------------------------
(* C18 *)

\* the sockets C18 is about
NeverIndexedKinds == {"raw"} \cup EmptyKinds

\* no guard released so far has changed the table the sockets' creation left
TableAsCreated == table = Created(DispatchTable_default, sockets, 1)

\* C18 as claimed: releasing guards over raw, ICMP, DHCP or DNS sockets,
\* whatever was done to the socket inside, leaves the DispatchTable and the
\* dirty-handle set (empty at the start) unchanged.
NeverDirtyNeverIndexedAll ==
    \A h \in TrackedHandle :
        sockets[h].kind \in NeverIndexedKinds
            => TableAsCreated /\ dirty_sockets = {}

\* C18 as amended: ... leaves the DispatchTable unchanged; ICMP, DHCP and DNS
\* sockets never report dirty and the dirty-handle set stays unchanged, while
\* a raw socket reports its own flags: once a guard over it is released, it
\* is in the dirty set if it reports dirty.
NeverDirtyNeverIndexed ==
    \A h \in TrackedHandle :
        /\ sockets[h].kind \in NeverIndexedKinds => TableAsCreated
        /\ sockets[h].kind \in EmptyKinds
               => dirty_sockets = {} /\ ~sockets[h].on_dirty_list
        /\ (sockets[h].kind = "raw" /\ call.op = "drop" /\ call.handle = h)
               => call.issued = <<>> /\ (is_dirty(sockets[h]) => h \in dirty_sockets)

\* Guards over ICMP sockets have been released with work pending on both
\* sockets, and no handle was enqueued.
NeverDirtyNeverIndexedWitness ==
    /\ call.op = "drop"
    /\ \A h \in TrackedHandle : sockets[h].kind = "icmp" /\ sockets[h].dirty
    /\ dirty_sockets = {}

----------------------------------------------------------------------------
(* C19 *)

\* C19: acquiring and releasing a SocketTracker over the tagged-union socket
\* completes without reaching an unreachable!() branch, for every variant.
UnionNeverPanics == call.op # "panic" /\ res # unreachable.tag

----------------------------------------------------------------------------
(* C20 *)

\* a socket's on-dirty-list flag is true exactly when its handle is in the
\* dirty set
FlagIsMembership ==
    \A h \in TrackedHandle : is_on_dirty_list(sockets[h]) <=> h \in dirty_sockets

\* C20 as claimed: after any interleaving of guards and drains the flag is
\* membership, and immediately after a guard release every socket that
\* reports dirty has its handle in the dirty set.
DirtyInStepEvery ==
    /\ FlagIsMembership
    /\ call.op = "drop"
         => \A h \in TrackedHandle : is_dirty(sockets[h]) => h \in dirty_sockets

\* C20 as amended: ... and immediately after a guard release the socket the
\* guard was over, if it reports dirty, has its handle in the dirty set.
DirtyInStep ==
    /\ FlagIsMembership
    /\ call.op = "drop"
         => (is_dirty(sockets[call.handle]) => call.handle \in dirty_sockets)

\* A guard over a dirty socket has just been released and its handle is in
\* the dirty set, while another socket, drained earlier, still reports dirty
\* and is out of the set.
DirtyInStepWitness ==
    /\ call.op = "drop"
    /\ is_dirty(sockets[call.handle]) /\ call.handle \in dirty_sockets
    /\ \E h \in TrackedHandle : is_dirty(sockets[h]) /\ h \notin dirty_sockets

====
